---------------------------- MODULE Spec2Model ----------------------------
(***************************************************************************)
(* A model of elevenlabs-tts.py: the ElevenLabsTTS client                  *)
(* (test_connection, text_to_speech, save_audio), read_text_file and the   *)
(* control flow of main().                                                 *)
(*                                                                         *)
(* Text is a sequence of one-character strings, so that str.lower(), the   *)
(* f-string of the output name and strftime are computed character by      *)
(* character.  File content is bytes (0..255); a file is a short sequence  *)
(* of bytes, `head`, followed by `pad` copies of the ASCII letter x, which *)
(* lets a run-length encoded file cross the 5000 character limit.          *)
(***************************************************************************)
EXTENDS Integers, Sequences, FiniteSets, TLC

(***************************************************************************)
(* Bounds of the model.                                                    *)
(***************************************************************************)
MaxHead == 2        \* bytes of a file's head in a run of main()
MaxBytes == 3       \* bytes of a file's head when read_text_file is run alone
MaxBody == 2        \* bytes of an HTTP response body
MaxTick == 3        \* half-second instants of the wall clock
MaxVoices == 12     \* voices listed by the provider
MaxTokenLen == 4    \* characters of a generated voice token

(***************************************************************************)
(* Program constants.                                                      *)
(***************************************************************************)
LengthLimit == 5000     \* len(text) > 5000
SampleLimit == 10       \* voices_data['voices'][:10]
PrefixLen == 8          \* voice['voice_id'][:8]

BASE_URL == "https://api.elevenlabs.io/v1"

---------------------------------------------------------------------------
(***************************************************************************)
(* Sequences.                                                              *)
(***************************************************************************)
Take(s, n) == SubSeq(s, 1, IF n < Len(s) THEN n ELSE Len(s))

Min(a, b) == IF a < b THEN a ELSE b

SeqsUpTo(S, n) == UNION {[1..k -> S] : k \in 0..n}

---------------------------------------------------------------------------
(***************************************************************************)
(* str.lower() on the ASCII letters; every other character is unchanged.   *)
(***************************************************************************)
UPPER == <<"A","B","C","D","E","F","G","H","I","J","K","L","M",
           "N","O","P","Q","R","S","T","U","V","W","X","Y","Z">>
LOWER == <<"a","b","c","d","e","f","g","h","i","j","k","l","m",
           "n","o","p","q","r","s","t","u","v","w","x","y","z">>

LowerChar(c) ==
    IF \E i \in 1..Len(UPPER) : UPPER[i] = c
    THEN LOWER[CHOOSE i \in 1..Len(UPPER) : UPPER[i] = c]
    ELSE c

lower(s) == [i \in 1..Len(s) |-> LowerChar(s[i])]

(***************************************************************************)
(* self.voices, as the set of its (key, value) items, and dict.get.        *)
(***************************************************************************)
voices ==
    {  <<<<"a","d","a","m">>,
         <<"p","N","I","n","z","6","o","b","p","g","D","Q","G","c","F","m","a","J","g","B">>>>,
       <<<<"b","e","l","l","a">>,
         <<"E","X","A","V","I","T","Q","u","4","v","r","4","x","n","S","D","x","M","a","L">>>>,
       <<<<"a","r","n","o","l","d">>,
         <<"V","R","6","A","e","w","L","T","i","g","W","G","4","x","S","O","u","k","a","G">>>>,
       <<<<"j","o","s","h">>,
         <<"T","x","G","E","q","n","H","W","r","f","W","F","T","f","G","W","9","X","j","X">>>>,
       <<<<"d","a","v","e">>,
         <<"C","Y","w","3","k","Z","0","2","H","s","0","5","6","3","k","h","s","1","F","j">>>>,
       <<<<"l","a","u","r","a">>,
         <<"F","G","Y","2","W","h","T","Y","p","P","n","r","I","D","T","d","s","K","H","5">>>>,
       <<<<"c","h","a","r","l","i","e">>,
         <<"I","K","n","e","3","m","e","q","5","a","S","n","9","X","L","y","U","d","C","D">>>>,
       <<<<"g","e","o","r","g","e">>,
         <<"J","B","F","q","n","C","B","s","d","6","R","M","k","j","V","D","R","Z","z","b">>>> }

VoiceKeys == {e[1] : e \in voices}

DictGet(d, k, default) ==
    IF \E e \in d : e[1] = k
    THEN (CHOOSE e \in d : e[1] = k)[2]
    ELSE default

RawKeyVoiceId(voice) == DictGet(voices, voice, voice)

\* voice_id = self.voices.get(voice.lower(), voice)
ResolveVoiceId(voice) == DictGet(voices, lower(voice), voice)

---------------------------------------------------------------------------
(***************************************************************************)
(* Codecs.  A decoder returns [ok, cps]: whether the bytes decode, and the *)
(* code points they decode to.                                             *)
(***************************************************************************)
Cont(b) == b >= 128 /\ b <= 191

DecodeFail == [ok |-> FALSE, cps |-> <<>>]

\* The length of the UTF-8 sequence starting at bs[i], 0 when it is ill-formed
\* (strict: no overlong forms, no surrogates, nothing above U+10FFFF).
Utf8SeqLen(bs, i) ==
    LET b == bs[i]
        n == Len(bs)
        b1 == IF i + 1 <= n THEN bs[i + 1] ELSE 0
        b2 == IF i + 2 <= n THEN bs[i + 2] ELSE 0
        b3 == IF i + 3 <= n THEN bs[i + 3] ELSE 0
    IN  IF b < 128 THEN 1
        ELSE IF b >= 194 /\ b <= 223 THEN (IF Cont(b1) THEN 2 ELSE 0)
        ELSE IF b = 224 THEN (IF b1 >= 160 /\ b1 <= 191 /\ Cont(b2) THEN 3 ELSE 0)
        ELSE IF b = 237 THEN (IF b1 >= 128 /\ b1 <= 159 /\ Cont(b2) THEN 3 ELSE 0)
        ELSE IF b >= 225 /\ b <= 239 THEN (IF Cont(b1) /\ Cont(b2) THEN 3 ELSE 0)
        ELSE IF b = 240
             THEN (IF b1 >= 144 /\ b1 <= 191 /\ Cont(b2) /\ Cont(b3) THEN 4 ELSE 0)
        ELSE IF b >= 241 /\ b <= 243
             THEN (IF Cont(b1) /\ Cont(b2) /\ Cont(b3) THEN 4 ELSE 0)
        ELSE IF b = 244
             THEN (IF b1 >= 128 /\ b1 <= 143 /\ Cont(b2) /\ Cont(b3) THEN 4 ELSE 0)
        ELSE 0

Utf8CodePoint(bs, i, k) ==
    IF k = 1 THEN bs[i]
    ELSE IF k = 2 THEN (bs[i] - 192) * 64 + (bs[i + 1] - 128)
    ELSE IF k = 3 THEN (bs[i] - 224) * 4096 + (bs[i + 1] - 128) * 64 + (bs[i + 2] - 128)
    ELSE (bs[i] - 240) * 262144 + (bs[i + 1] - 128) * 4096
         + (bs[i + 2] - 128) * 64 + (bs[i + 3] - 128)

RECURSIVE Utf8From(_, _, _)
Utf8From(bs, i, acc) ==
    IF i > Len(bs) THEN [ok |-> TRUE, cps |-> acc]
    ELSE LET k == Utf8SeqLen(bs, i)
         IN  IF k = 0 THEN DecodeFail
             ELSE Utf8From(bs, i + k, Append(acc, Utf8CodePoint(bs, i, k)))

DecodeUtf8(bs) == Utf8From(bs, 1, <<>>)

AsciiOnlyLatin1(bs) ==
    IF \A i \in 1..Len(bs) : bs[i] < 128
    THEN [ok |-> TRUE, cps |-> bs]
    ELSE DecodeFail

\* latin-1 maps every byte to the code point of the same number.
DecodeLatin1(bs) == [ok |-> TRUE, cps |-> bs]

\* cp1252: bytes 0x80..0x9f map through a table in which 0x81, 0x8d, 0x8f,
\* 0x90 and 0x9d are undefined; every other byte maps to its own number.
Cp1252High ==
    <<8364, 0, 8218, 402, 8222, 8230, 8224, 8225,
      710, 8240, 352, 8249, 338, 0, 381, 0,
      0, 8216, 8217, 8220, 8221, 8226, 8211, 8212,
      732, 8482, 353, 8250, 339, 0, 382, 376>>

Cp1252Char(b) == IF b >= 128 /\ b <= 159 THEN Cp1252High[b - 127] ELSE b

DecodeCp1252(bs) ==
    IF \E i \in 1..Len(bs) : bs[i] >= 128 /\ bs[i] <= 159 /\ Cp1252Char(bs[i]) = 0
    THEN DecodeFail
    ELSE [ok |-> TRUE, cps |-> [i \in 1..Len(bs) |-> Cp1252Char(bs[i])]]

Decode(encoding, bs) ==
    IF encoding = "utf-8" THEN DecodeUtf8(bs)
    ELSE IF encoding = "latin-1" THEN DecodeLatin1(bs)
    ELSE DecodeCp1252(bs)

\* Text mode (newline=None): "\r\n" and a lone "\r" are read as "\n".
RECURSIVE NewlinesFrom(_, _, _)
NewlinesFrom(cps, i, acc) ==
    IF i > Len(cps) THEN acc
    ELSE IF cps[i] = 13
         THEN NewlinesFrom(cps, IF i < Len(cps) /\ cps[i + 1] = 10 THEN i + 2 ELSE i + 1,
                           Append(acc, 10))
         ELSE NewlinesFrom(cps, i + 1, Append(acc, cps[i]))

UniversalNewlines(cps) == NewlinesFrom(cps, 1, <<>>)

\* str.isspace() of one character.
IsSpace(c) ==
    \/ c >= 9 /\ c <= 13
    \/ c >= 28 /\ c <= 32
    \/ c \in {133, 160, 5760, 8232, 8233, 8239, 8287, 12288}
    \/ c >= 8192 /\ c <= 8202

RECURSIVE LStrip(_)
LStrip(s) == IF s # <<>> /\ IsSpace(Head(s)) THEN LStrip(Tail(s)) ELSE s

RECURSIVE RStrip(_)
RStrip(s) ==
    IF s # <<>> /\ IsSpace(s[Len(s)]) THEN RStrip(SubSeq(s, 1, Len(s) - 1)) ELSE s

(***************************************************************************)
(* A str: `chars` followed by `pad` letters x.  None is NoText.            *)
(***************************************************************************)
NoText == [none |-> TRUE, chars |-> <<>>, pad |-> 0]

Text(chars, pad) == [none |-> FALSE, chars |-> chars, pad |-> pad]

TextLen(t) == Len(t.chars) + t.pad

\* `not text`: None or the empty string
Falsy(t) == t.none \/ TextLen(t) = 0

\* f.read().strip()
ReadStrip(cps, pad) ==
    LET s == LStrip(UniversalNewlines(cps))
    IN  Text(IF pad = 0 THEN RStrip(s) ELSE s, pad)

(***************************************************************************)
(* read_text_file.  A file is [state, head, pad]: "missing" (open raises   *)
(* FileNotFoundError), "denied" (open raises another OSError) or "ok".     *)
(* The result is [content, opens, msgs]: the returned value, the number of *)
(* times the file was opened, and the messages printed.                    *)
(***************************************************************************)
FALLBACK_ENCODINGS == <<"latin-1", "cp1252">>

RECURSIVE TryEncodings(_, _, _)
TryEncodings(file, i, opens) ==
    IF i > Len(FALLBACK_ENCODINGS)
    THEN [content |-> NoText, opens |-> opens,
          msgs |-> <<"unable_to_read_any_encoding">>]
    ELSE LET d == Decode(FALLBACK_ENCODINGS[i], file.head)
         IN  IF d.ok
             THEN [content |-> ReadStrip(d.cps, file.pad), opens |-> opens + 1,
                   msgs |-> <<"file_read_with_" \o FALLBACK_ENCODINGS[i]>>]
             ELSE TryEncodings(file, i + 1, opens + 1)

read_text_file(file) ==
    IF file.state = "missing"
    THEN [content |-> NoText, opens |-> 1, msgs |-> <<"file_not_found">>]
    ELSE IF file.state = "denied"
    THEN [content |-> NoText, opens |-> 1, msgs |-> <<"error_reading_file">>]
    ELSE LET d == Decode("utf-8", file.head)
         IN  IF d.ok
             THEN [content |-> ReadStrip(d.cps, file.pad), opens |-> 1, msgs |-> <<>>]
             ELSE TryEncodings(file, 1, 1)

---------------------------------------------------------------------------
(***************************************************************************)
(* pathlib: Path(p).stem, the final component without its last suffix.     *)
(***************************************************************************)
RECURSIVE LastIndexOf(_, _, _)
LastIndexOf(s, c, i) ==
    IF i = 0 THEN 0 ELSE IF s[i] = c THEN i ELSE LastIndexOf(s, c, i - 1)

PathName(p) == SubSeq(p, LastIndexOf(p, "/", Len(p)) + 1, Len(p))

\* i = name.rfind('.'); name[:i] if 0 < i < len(name) - 1 else name (0-based i)
Stem(p) ==
    LET name == PathName(p)
        i == LastIndexOf(name, ".", Len(name))
    IN  IF 1 < i /\ i < Len(name) THEN SubSeq(name, 1, i - 1) ELSE name

(***************************************************************************)
(* datetime.now().strftime("%Y%m%d_%H%M%S").  The clock counts half        *)
(* seconds from 2024-01-02 03:04:58.0; Now(t) is the datetime at instant t.*)
(***************************************************************************)
DIGITS == <<"0","1","2","3","4","5","6","7","8","9">>

Digit(n) == DIGITS[n + 1]

TwoDigits(n) == <<Digit((n \div 10) % 10), Digit(n % 10)>>

FourDigits(n) == TwoDigits(n \div 100) \o TwoDigits(n % 100)

Now(t) ==
    LET secs == 3 * 3600 + 4 * 60 + 58 + (t \div 2)
    IN  [year |-> 2024, month |-> 1, day |-> 2,
         hour |-> secs \div 3600, minute |-> (secs \div 60) % 60,
         second |-> secs % 60, microsecond |-> (t % 2) * 500000]

StrftimeToMinute(dt) ==
    FourDigits(dt.year) \o TwoDigits(dt.month) \o TwoDigits(dt.day) \o <<"_">>
    \o TwoDigits(dt.hour) \o TwoDigits(dt.minute)

Strftime(dt) ==
    FourDigits(dt.year) \o TwoDigits(dt.month) \o TwoDigits(dt.day) \o <<"_">>
    \o TwoDigits(dt.hour) \o TwoDigits(dt.minute) \o TwoDigits(dt.second)

\* f"{input_name}_{args.voice}_{timestamp}.mp3"
DefaultOutput(input_file, voice, dt) ==
    Stem(input_file) \o <<"_">> \o voice \o <<"_">> \o Strftime(dt)
    \o <<".", "m", "p", "3">>

---------------------------------------------------------------------------
(***************************************************************************)
(* HTTP.  A response is [kind, status, content, json, voices]: kind "error" *)
(* is a transport failure (a RequestException with no response); content   *)
(* is the body of a synthesis response as bytes; for the voice listing,     *)
(* json says whether the body parses to an object with a 'voices' list,     *)
(* and voices is that list.                                                 *)
(***************************************************************************)
Statuses == {101, 200, 299, 304, 400, 499, 500, 599}

\* Response.raise_for_status: HTTPError for 400 <= status < 600
RaisesForStatus(status) == status >= 400 /\ status < 600

BodyBytes == {0, 255}

TransportError ==
    [kind |-> "error", status |-> 0, content |-> <<>>, json |-> FALSE, voices |-> <<>>]

SynthesisResponses ==
    {TransportError} \cup
    {[kind |-> "response", status |-> st, content |-> b, json |-> FALSE, voices |-> <<>>] :
        st \in Statuses, b \in SeqsUpTo(BodyBytes, MaxBody)}

\* The i-th voice of the provider's listing; identifiers are 6 to 10 characters.
ProviderVoice(i) ==
    [name |-> <<"v">> \o TwoDigits(i),
     voice_id |-> [k \in 1..(6 + (i % 5)) |-> Digit((i + k) % 10)]]

VoiceListings ==
    {[k \in 1..n |-> ProviderVoice(start + k)] : start \in {0, 1}, n \in 0..MaxVoices}

ProbeResponses ==
    {TransportError} \cup
    {[kind |-> "response", status |-> st, content |-> <<>>, json |-> FALSE, voices |-> <<>>] :
        st \in Statuses} \cup
    {[kind |-> "response", status |-> st, content |-> <<>>, json |-> TRUE, voices |-> vs] :
        st \in Statuses, vs \in VoiceListings}

JsonAcceptHeaders(key) ==
    {<<"Accept", "application/json">>, <<"Content-Type", "application/json">>,
     <<"xi-api-key", key>>}

\* self.headers
ClientHeaders(key) ==
    {<<"Accept", "audio/mpeg">>, <<"Content-Type", "application/json">>,
     <<"xi-api-key", key>>}

---------------------------------------------------------------------------
(***************************************************************************)
(* The state of one run of main().                                         *)
(***************************************************************************)
VARIABLES
    pc,          \* where main() is: "parse", "env", "dispatch", "length",
                 \* "prompt", "tts", "name", "save", "exit"
    args,        \* the parsed arguments; <<>> is an argument not given
    api_key,     \* os.getenv('ELEVENLABS_API_KEY'); "" when unset or empty
    file,        \* the file found at args.input_file when it was read
    text,        \* the text read from the input file
    opens,       \* how many times the input file has been opened for reading
    requests,    \* the HTTP requests issued, in order
    response,    \* the response the last request received
    probe,       \* what test_connection printed and returned
    prompted,    \* whether the "Continue anyway?" prompt has been shown
    answer,      \* what input() returned to the prompt
    audio_data,  \* what text_to_speech returned; <<>> is None, <<b>> is bytes b
    clock,       \* the instant datetime.now() was read
    disk,        \* the output files: a set of [path, data, by]
    writes,      \* how many times an output file has been opened for writing
    saved,       \* the byte count save_audio reported, -1 when none
    out,         \* the messages printed, in order
    exit_code,   \* the process's exit status once pc = "exit", -1 before
    runs,        \* concurrent invocations: [pc, input_file, voice, output]
    clobbered    \* output files truncated by another invocation's save_audio

vars == <<pc, args, api_key, file, text, opens, requests, response, probe,
          prompted, answer, audio_data, clock, disk, writes, saved, out, exit_code,
          runs, clobbered>>

concVars == <<runs, clobbered>>

ADAM == <<"a","d","a","m">>

InputFile == <<"t", ".", "t", "x", "t">>

OutputFile == <<"o", ".", "m", "p", "3">>

MainVoices == {ADAM, <<"A","D","A","M">>}

\* argparse defaults for -v, -m, --stability, --similarity, --style
DefaultArgs ==
    [test_connection |-> FALSE, input_file |-> <<>>, output |-> <<>>,
     voice |-> ADAM, model |-> "eleven_turbo_v2_5",
     stability |-> "0.5", similarity |-> "0.75", style |-> "0.0"]

ArgSet ==
    {[DefaultArgs EXCEPT !.test_connection = TRUE, !.input_file = f] :
        f \in {<<>>, InputFile}} \cup
    {[DefaultArgs EXCEPT !.input_file = f, !.output = o, !.voice = v] :
        f \in {<<>>, InputFile}, o \in {<<>>, OutputFile}, v \in MainVoices}

NoFile == [state |-> "unread", head |-> <<>>, pad |-> 0]

NoResponse ==
    [kind |-> "none", status |-> 0, content |-> <<>>, json |-> FALSE, voices |-> <<>>]

NoAnswer == [eof |-> FALSE, line |-> <<"-">>, given |-> FALSE]

NoProbe == [returned |-> "not called", count |-> -1, entries |-> <<>>]

Emit(msgs) == out' = out \o msgs

\* sys.exit(code), or falling off the end of main() (code 0), or an uncaught
\* exception (a traceback and code 1)
Exit(code) == pc' = "exit" /\ exit_code' = code

MainInit ==
    /\ pc = "parse"
    /\ args = DefaultArgs
    /\ api_key = ""
    /\ file = NoFile
    /\ text = NoText
    /\ opens = 0
    /\ requests = <<>>
    /\ response = NoResponse
    /\ probe = NoProbe
    /\ prompted = FALSE
    /\ answer = NoAnswer
    /\ audio_data = <<>>
    /\ clock = 0
    /\ disk = {}
    /\ writes = 0
    /\ saved = -1
    /\ out = <<>>
    /\ exit_code = -1

ConcIdle == runs = <<>> /\ clobbered = {}

Init == MainInit /\ ConcIdle

\* args = parser.parse_args()
ParseArgs ==
    /\ pc = "parse"
    /\ \E a \in ArgSet : args' = a
    /\ pc' = "env"
    /\ UNCHANGED <<api_key, file, text, opens, requests, response, probe, prompted, answer, audio_data,
                   clock, disk, writes, saved, out, exit_code, concVars>>

\* api_key = os.getenv(...); if not api_key: print; sys.exit(1); tts = ElevenLabsTTS(api_key)
LoadKey ==
    /\ pc = "env"
    /\ \E k \in {"", "sk_test"} :
        /\ api_key' = k
        /\ IF k = ""
           THEN Emit(<<"api_key_not_found">>) /\ Exit(1)
           ELSE pc' = "dispatch" /\ UNCHANGED <<out, exit_code>>
    /\ UNCHANGED <<args, file, text, opens, requests, response, probe, prompted, answer, audio_data,
                   clock, disk, writes, saved, concVars>>

(***************************************************************************)
(* test_connection.  TestConnectionResult is what the method prints and    *)
(* returns for a response; json_caught says whether the installed requests *)
(* raises its own JSONDecodeError (a RequestException, caught) or a plain  *)
(* ValueError (not caught) for a body that is not JSON.                    *)
(***************************************************************************)
ProbeRequest(key) ==
    [method |-> "GET", url |-> [prefix |-> BASE_URL \o "/voices", voice_id |-> <<>>],
     headers |-> {<<"xi-api-key", key>>}, json |-> <<>>]

LastSample(vs) == SubSeq(vs, Len(vs) - Min(Len(vs), SampleLimit) + 1, Len(vs))

\* voices_data['voices'][:10]
Sample(vs) == Take(vs, SampleLimit)

\* f"  {i+1}. {voice['name']} ({voice['voice_id'][:8]}...)"
SampleLines(vs) ==
    [i \in 1..Len(Sample(vs)) |->
        [index |-> i, name |-> Sample(vs)[i].name,
         id_prefix |-> Take(Sample(vs)[i].voice_id, PrefixLen)]]

TestConnectionResult(resp, json_caught) ==
    IF resp.kind = "error" \/ RaisesForStatus(resp.status)
    THEN [returned |-> "False", count |-> -1, entries |-> <<>>,
          msgs |-> <<"api_connection_failed">>]
    ELSE IF ~resp.json
    THEN IF json_caught
         THEN [returned |-> "False", count |-> -1, entries |-> <<>>,
               msgs |-> <<"api_connection_failed">>]
         ELSE [returned |-> "raised", count |-> -1, entries |-> <<>>,
               msgs |-> <<"traceback">>]
    ELSE [returned |-> "True", count |-> Len(resp.voices),
          entries |-> SampleLines(resp.voices),
          msgs |-> <<"api_connection_successful", "available_voices", "sample_voices">>]

\* if args.test_connection: tts.test_connection(); return
TestConnection ==
    /\ pc = "dispatch"
    /\ args.test_connection
    /\ \E resp \in ProbeResponses, json_caught \in BOOLEAN :
        LET r == TestConnectionResult(resp, json_caught)
        IN  /\ requests' = Append(requests, ProbeRequest(api_key))
            /\ response' = resp
            /\ probe' = [returned |-> r.returned, count |-> r.count, entries |-> r.entries]
            /\ Emit(r.msgs)
            /\ Exit(IF r.returned = "raised" THEN 1 ELSE 0)
    /\ UNCHANGED <<args, api_key, file, text, opens, prompted, answer, audio_data,
                   clock, disk, writes, saved, concVars>>

\* if not args.input_file: print; parser.print_help(); sys.exit(1)
NoInputFile ==
    /\ pc = "dispatch"
    /\ ~args.test_connection
    /\ args.input_file = <<>>
    /\ Emit(<<"please_provide_input_file", "help">>)
    /\ Exit(1)
    /\ UNCHANGED <<args, api_key, file, text, opens, requests, response, probe, prompted, answer, audio_data,
                   clock, disk, writes, saved, concVars>>

(***************************************************************************)
(* The files main() may find at args.input_file.                           *)
(***************************************************************************)
MainBytes == {32, 65, 233}

Pads == {0, LengthLimit - 1, LengthLimit, LengthLimit + 1}

Files(bytes, n, pads) ==
    {[state |-> "missing", head |-> <<>>, pad |-> 0],
     [state |-> "denied", head |-> <<>>, pad |-> 0]} \cup
    {[state |-> "ok", head |-> h, pad |-> p] : h \in SeqsUpTo(bytes, n), p \in pads}

\* text = read_text_file(args.input_file); if not text: sys.exit(1)
ReadInputFrom(files) ==
    /\ pc = "dispatch"
    /\ ~args.test_connection
    /\ args.input_file # <<>>
    /\ \E f \in files :
        LET r == read_text_file(f)
        IN  /\ file' = f
            /\ text' = r.content
            /\ opens' = opens + r.opens
            /\ Emit(<<"reading_text_from">> \o r.msgs)
            /\ IF Falsy(r.content)
               THEN Exit(1)
               ELSE pc' = "length" /\ UNCHANGED exit_code
    /\ UNCHANGED <<args, api_key, requests, response, probe, prompted, answer, audio_data,
                   clock, disk, writes, saved, concVars>>

ReadInput == ReadInputFrom(Files(MainBytes, MaxHead, Pads))

AtLeastLimit(t) == TextLen(t) >= LengthLimit

\* len(text) > 5000
TooLong(t) == TextLen(t) > LengthLimit

\* if len(text) > 5000: print warning; input("Continue anyway? (y/N): ") shows the prompt
LengthCheck ==
    /\ pc = "length"
    /\ IF TooLong(text)
       THEN /\ Emit(<<"text_is_long">>)
            /\ prompted' = TRUE
            /\ pc' = "prompt"
       ELSE /\ Emit(<<"text_preview">>)
            /\ pc' = "tts"
            /\ UNCHANGED prompted
    /\ UNCHANGED <<args, api_key, file, text, opens, requests, response, probe, answer,
                   audio_data, clock, disk, writes, saved, exit_code, concVars>>

\* What input() returns: a line, or EOFError when stdin is closed.
Answers ==
    {[eof |-> TRUE, line |-> <<>>]} \cup
    {[eof |-> FALSE, line |-> l] :
        l \in {<<>>, <<"y">>, <<"Y">>, <<"n">>, <<"N">>, <<"y", "e", "s">>, <<" ", "y">>}}

\* response.lower() != 'y' exits
Accepts(a) == ~a.eof /\ lower(a.line) = <<"y">>

\* response = input(...); if response.lower() != 'y': sys.exit(1)
Answer ==
    /\ pc = "prompt"
    /\ \E a \in Answers :
        /\ answer' = [eof |-> a.eof, line |-> a.line, given |-> TRUE]
        /\ IF a.eof
           THEN Emit(<<"traceback">>) /\ Exit(1)
           ELSE IF Accepts(a)
           THEN Emit(<<"text_preview">>) /\ pc' = "tts" /\ UNCHANGED exit_code
           ELSE Exit(1) /\ UNCHANGED out
    /\ UNCHANGED <<args, api_key, file, text, opens, requests, response, probe, prompted,
                   audio_data, clock, disk, writes, saved, concVars>>

(***************************************************************************)
(* text_to_speech.  SynthesisResult is what the method returns and prints  *)
(* for a response: audio is <<>> for None, <<content>> otherwise.          *)
(***************************************************************************)
Payload(t, a) ==
    [text |-> t, model_id |-> a.model,
     voice_settings |-> [stability |-> a.stability, similarity_boost |-> a.similarity,
                         style |-> a.style, use_speaker_boost |-> TRUE]]

SynthesisRequest(key, t, a) ==
    [method |-> "POST",
     url |-> [prefix |-> BASE_URL \o "/text-to-speech/", voice_id |-> ResolveVoiceId(a.voice)],
     headers |-> ClientHeaders(key), json |-> <<Payload(t, a)>>]

SynthesisResult(resp) ==
    IF resp.kind = "error"
    THEN [audio |-> <<>>, msgs |-> <<"generating_speech", "error_generating_speech">>]
    ELSE IF RaisesForStatus(resp.status)
    THEN [audio |-> <<>>,
          msgs |-> <<"generating_speech", "error_generating_speech", "error_details">>]
    ELSE [audio |-> <<resp.content>>,
          msgs |-> <<"generating_speech", "speech_generated">>]

\* `not audio_data`: None or b""
NoAudio(a) == a = <<>> \/ a[1] = <<>>

\* audio_data = tts.text_to_speech(...); if not audio_data: sys.exit(1)
TextToSpeech ==
    /\ pc = "tts"
    /\ \E resp \in SynthesisResponses :
        LET r == SynthesisResult(resp)
        IN  /\ requests' = Append(requests,
                                  SynthesisRequest(api_key, text, args))
            /\ response' = resp
            /\ audio_data' = r.audio
            /\ Emit(r.msgs)
            /\ IF NoAudio(r.audio)
               THEN Exit(1)
               ELSE pc' = "name" /\ UNCHANGED exit_code
    /\ UNCHANGED <<args, api_key, file, text, opens, probe, prompted, answer,
                   clock, disk, writes, saved, concVars>>

(***************************************************************************)
(* The output file.  open(path, 'wb') creates or truncates the file at     *)
(* path; `by` is the invocation that wrote it (0 is the run of main()).    *)
(***************************************************************************)
WriteFile(d, path, data, by) ==
    {e \in d : e.path # path} \cup {[path |-> path, data |-> data, by |-> by]}

\* if not args.output: args.output = f"{input_name}_{args.voice}_{timestamp}.mp3"
NameOutput ==
    /\ pc = "name"
    /\ IF args.output = <<>>
       THEN \E t \in 0..MaxTick :
               /\ clock' = t
               /\ args' = [args EXCEPT
                              !.output = DefaultOutput(args.input_file, args.voice, Now(t))]
       ELSE UNCHANGED <<args, clock>>
    /\ pc' = "save"
    /\ UNCHANGED <<api_key, file, text, opens, requests, response, probe, prompted, answer,
                   audio_data, disk, writes, saved, out, exit_code, concVars>>

\* What the operating system does with the write: it succeeds, open() raises,
\* or f.write() raises after the file was created and k bytes were written.
WriteOutcomes(data) ==
    {[kind |-> "ok", written |-> Len(data)], [kind |-> "open_fails", written |-> 0]} \cup
    {[kind |-> "write_fails", written |-> k] : k \in 0..(Len(data) - 1)}

\* if tts.save_audio(audio_data, args.output): print success  else: sys.exit(1)
SaveAudio ==
    /\ pc = "save"
    /\ \E o \in WriteOutcomes(audio_data[1]) :
        /\ writes' = writes + 1
        /\ disk' = IF o.kind = "open_fails"
                   THEN disk
                   ELSE WriteFile(disk, args.output, Take(audio_data[1], o.written), 0)
        /\ IF o.kind = "ok"
           THEN /\ saved' = Len(audio_data[1])
                /\ Emit(<<"audio_saved_to", "file_size", "success">>)
                /\ Exit(0)
           ELSE /\ Emit(<<"error_saving_audio">>)
                /\ Exit(1)
                /\ UNCHANGED saved
    /\ UNCHANGED <<args, api_key, file, text, opens, requests, response, probe, prompted, answer,
                   audio_data, clock, concVars>>

Next ==
    \/ ParseArgs
    \/ LoadKey
    \/ TestConnection
    \/ NoInputFile
    \/ ReadInput
    \/ LengthCheck
    \/ Answer
    \/ TextToSpeech
    \/ NameOutput
    \/ SaveAudio

Spec == Init /\ [][Next]_vars

---------------------------------------------------------------------------
(***************************************************************************)
(* read_text_file on its own, over bytes of every UTF-8 class: ASCII,      *)
(* newlines, continuation bytes, lead bytes of 2, 3 and 4 byte sequences,  *)
(* bytes cp1252 leaves undefined (0x81) and bytes no UTF-8 text holds.     *)
(* The run starts where main() is about to read its input file.            *)
(***************************************************************************)
ReadBytes == {10, 13, 32, 65, 129, 160, 191, 194, 224, 237, 240, 255}

InitRead ==
    /\ pc = "dispatch"
    /\ args = [DefaultArgs EXCEPT !.input_file = InputFile]
    /\ api_key = "sk_test"
    /\ file = NoFile
    /\ text = NoText
    /\ opens = 0
    /\ requests = <<>>
    /\ response = NoResponse
    /\ probe = NoProbe
    /\ prompted = FALSE
    /\ answer = NoAnswer
    /\ audio_data = <<>>
    /\ clock = 0
    /\ disk = {}
    /\ writes = 0
    /\ saved = -1
    /\ out = <<>>
    /\ exit_code = -1
    /\ ConcIdle

ReadAlone == ReadInputFrom(Files(ReadBytes, MaxBytes, {0, LengthLimit}))

NextRead == ReadAlone \/ LengthCheck

SpecRead == InitRead /\ [][NextRead]_vars

---------------------------------------------------------------------------
(***************************************************************************)
(* text_to_speech on its own, over many voice tokens: every string of up   *)
(* to MaxTokenLen characters over a small alphabet, the catalog's keys in  *)
(* lower case, upper case and capitalised, and the catalog's identifiers.  *)
(* The run starts where main() is about to call text_to_speech.            *)
(***************************************************************************)
UpperChar(c) ==
    IF \E i \in 1..Len(LOWER) : LOWER[i] = c
    THEN UPPER[CHOOSE i \in 1..Len(LOWER) : LOWER[i] = c]
    ELSE c

upper(s) == [i \in 1..Len(s) |-> UpperChar(s[i])]

capitalize(s) == [i \in 1..Len(s) |-> IF i = 1 THEN UpperChar(s[i]) ELSE s[i]]

VoiceTokens ==
    SeqsUpTo({"a", "A", "d", "m"}, MaxTokenLen)
    \cup VoiceKeys
    \cup {upper(k) : k \in VoiceKeys}
    \cup {capitalize(k) : k \in VoiceKeys}
    \cup {e[2] : e \in voices}
    \cup {lower(e[2]) : e \in voices}

InitVoice ==
    /\ pc = "tts"
    /\ \E v \in VoiceTokens : args = [DefaultArgs EXCEPT !.input_file = InputFile, !.voice = v]
    /\ api_key = "sk_test"
    /\ file = [state |-> "ok", head |-> <<65>>, pad |-> 0]
    /\ text = Text(<<65>>, 0)
    /\ opens = 1
    /\ requests = <<>>
    /\ response = NoResponse
    /\ probe = NoProbe
    /\ prompted = FALSE
    /\ answer = NoAnswer
    /\ audio_data = <<>>
    /\ clock = 0
    /\ disk = {}
    /\ writes = 0
    /\ saved = -1
    /\ out = <<"reading_text_from", "text_preview">>
    /\ exit_code = -1
    /\ ConcIdle

NextVoice == TextToSpeech

SpecVoice == InitVoice /\ [][NextVoice]_vars

---------------------------------------------------------------------------
(***************************************************************************)
(* Two invocations of the program running at once, each from the point     *)
(* where main() names its output (no -o given) to the end of save_audio.   *)
(* They share the wall clock and the file system; Tick is time passing.    *)
(***************************************************************************)
Procs == {1, 2}

ConcInputs ==
    {<<"a", ".", "t">>, <<"d", "/", "a", ".", "t">>, <<"a", "_", "b", ".", "t">>}

ConcVoices == {<<"c">>, <<"b", "_", "c">>}

RunSet ==
    [pc : {"name"}, input_file : ConcInputs, voice : ConcVoices,
     output : {<<>>}, at : {-1}]

InitConcurrent ==
    /\ MainInit
    /\ runs \in [Procs -> RunSet]
    /\ clobbered = {}

mainVars == <<pc, args, api_key, file, text, opens, requests, response, probe,
              prompted, answer, audio_data, writes, saved, out, exit_code>>

Tick ==
    /\ clock < MaxTick
    /\ clock' = clock + 1
    /\ UNCHANGED <<mainVars, disk, runs, clobbered>>

\* input_name = Path(args.input_file).stem; timestamp = datetime.now().strftime(...)
ConcNameOutput(p) ==
    /\ runs[p].pc = "name"
    /\ runs' = [runs EXCEPT ![p].pc = "save", ![p].at = clock,
                  ![p].output = DefaultOutput(runs[p].input_file, runs[p].voice, Now(clock))]
    /\ UNCHANGED <<mainVars, clock, disk, clobbered>>

\* tts.save_audio(audio_data, args.output); invocation p's audio is the byte p
ConcSaveAudio(p) ==
    /\ runs[p].pc = "save"
    /\ \E o \in WriteOutcomes(<<p>>) :
        /\ disk' = IF o.kind = "open_fails"
                   THEN disk
                   ELSE WriteFile(disk, runs[p].output, Take(<<p>>, o.written), p)
        /\ clobbered' = IF o.kind = "open_fails"
                        THEN clobbered
                        ELSE clobbered \cup
                             {[path |-> e.path, of |-> e.by, by |-> p] :
                                 e \in {x \in disk : x.path = runs[p].output /\ x.by # p}}
    /\ runs' = [runs EXCEPT ![p].pc = "done"]
    /\ UNCHANGED <<mainVars, clock>>

NextConcurrent ==
    \/ Tick
    \/ \E p \in Procs : ConcNameOutput(p)
    \/ \E p \in Procs : ConcSaveAudio(p)

SpecConcurrent == InitConcurrent /\ [][NextConcurrent]_vars

---------------------------------------------------------------------------
(***************************************************************************)
(* The claims.                                                             *)
(***************************************************************************)
Printed(m) == \E i \in 1..Len(out) : out[i] = m

Exited == pc = "exit"

TextRead == ~text.none

Is2xx(st) == st >= 200 /\ st <= 299

PostReceived == \E i \in 1..Len(requests) : requests[i].method = "POST"

(* C1: text longer than 5000 characters is prompted for before any network *)
(* call; an answer other than y or Y ends the run with exit code 1, with   *)
(* no request issued and no output file written; text of 5000 characters   *)
(* or fewer is never prompted for.                                         *)
C1_PromptGuardsLongText ==
    /\ (TextRead /\ TextLen(text) <= 5000) => ~prompted
    /\ (TextRead /\ TextLen(text) > 5000 /\ (requests # <<>> \/ writes > 0 \/ disk # {}))
          => (prompted /\ answer.given /\ answer.line \in {<<"y">>, <<"Y">>})
    /\ (answer.given /\ answer.line \notin {<<"y">>, <<"Y">>})
          => (Exited /\ exit_code = 1 /\ requests = <<>> /\ writes = 0 /\ disk = {})

C1_Declined ==
    /\ TextLen(text) > 5000 /\ prompted
    /\ answer.given /\ ~answer.eof /\ answer.line = <<>>
    /\ Exited /\ exit_code = 1

(* C2: when the synthesis POST receives a status outside 200..299,         *)
(* text_to_speech returns None, no output file is written and the process  *)
(* exits non-zero.                                                         *)
C2_Non2xxIsFailure ==
    (Exited /\ PostReceived /\ response.kind = "response" /\ ~Is2xx(response.status))
        => /\ audio_data = <<>> \/ audio_data = <<<<>>>>
           /\ writes = 0 /\ disk = {}
           /\ exit_code # 0

(* C3: when the synthesis POST receives a 2xx response with a body of N    *)
(* bytes, N >= 0, and the destination is writable, the run writes exactly  *)
(* those bytes to the destination, reports byte count N and exits 0.       *)
C3_Every2xxBodySaved ==
    (PostReceived /\ response.kind = "response" /\ Is2xx(response.status)
     /\ Exited /\ ~Printed("error_saving_audio"))
        => /\ exit_code = 0
           /\ saved = Len(response.content)
           /\ [path |-> args.output, data |-> response.content, by |-> 0] \in disk

(* C4: a run in which a stage fails (no API key, input file missing or     *)
(* unreadable, connection probe failed, synthesis failed, output write     *)
(* failed) prints a message for it and exits non-zero; exit code 0 only    *)
(* when no stage failed.                                                   *)
StageFailed ==
    \/ api_key = ""
    \/ file.state \in {"missing", "denied"}
    \/ probe.returned = "False"
    \/ (PostReceived /\ audio_data = <<>>)
    \/ (writes > 0 /\ saved = -1)

FailureReported ==
    \/ Printed("api_key_not_found")
    \/ Printed("file_not_found")
    \/ Printed("error_reading_file")
    \/ Printed("api_connection_failed")
    \/ Printed("error_generating_speech")
    \/ Printed("error_saving_audio")

C4_FailureExitsNonZero ==
    (Exited /\ StageFailed) => (FailureReported /\ exit_code # 0)

(* C5: two concurrent invocations without -o get distinct auto-generated   *)
(* output paths, so neither overwrites the other's file.                   *)
Named(p) == runs[p].output # <<>>

C5_DistinctOutputs ==
    (\A p \in DOMAIN runs : runs[p].pc = "done") =>
        /\ \A p, q \in DOMAIN runs : p # q => runs[p].output # runs[q].output
        /\ clobbered = {}

SameSecond(t, u) == (t \div 2) = (u \div 2)

(* C5, amended: the paths are distinct whenever the two invocations read   *)
(* the clock in different seconds; two invocations with the same stem and  *)
(* voice that read it in the same second get the same path; a file is      *)
(* overwritten by the other invocation only when both read the clock in    *)
(* the same second.                                                        *)
C5_DistinctAcrossSeconds ==
    /\ \A p, q \in DOMAIN runs :
          (p # q /\ Named(p) /\ Named(q)) =>
             /\ ~SameSecond(runs[p].at, runs[q].at) => runs[p].output # runs[q].output
             /\ (/\ SameSecond(runs[p].at, runs[q].at)
                 /\ Stem(runs[p].input_file) = Stem(runs[q].input_file)
                 /\ runs[p].voice = runs[q].voice) => runs[p].output = runs[q].output
    /\ \A c \in clobbered : SameSecond(runs[c.of].at, runs[c.by].at)

C5_SavedAcrossSeconds ==
    /\ DOMAIN runs = Procs
    /\ runs[1].pc = "done" /\ runs[2].pc = "done"
    /\ runs[1].input_file = runs[2].input_file /\ runs[1].voice = runs[2].voice
    /\ ~SameSecond(runs[1].at, runs[2].at)
    /\ Cardinality({e \in disk : Len(e.data) = 1}) = 2

(* C6: every request goes to https://api.elevenlabs.io/v1 and carries the  *)
(* same three headers: xi-api-key, Content-Type: application/json and      *)
(* Accept: audio/mpeg.                                                     *)
ThreeHeaders ==
    {<<"xi-api-key", api_key>>, <<"Content-Type", "application/json">>,
     <<"Accept", "audio/mpeg">>}

ToBaseUrl(r) ==
    r.url.prefix \in {"https://api.elevenlabs.io/v1/voices",
                      "https://api.elevenlabs.io/v1/text-to-speech/"}

C6_ThreeHeadersOnEveryRequest ==
    \A i \in 1..Len(requests) :
        ToBaseUrl(requests[i]) /\ requests[i].headers = ThreeHeaders

(* C6, amended: every request goes to https://api.elevenlabs.io/v1 and     *)
(* carries the xi-api-key header; the POST of text_to_speech carries       *)
(* exactly the three headers, the GET of test_connection is given the      *)
(* xi-api-key header alone.                                                *)
C6_KeyOnEveryRequest ==
    \A i \in 1..Len(requests) :
        /\ ToBaseUrl(requests[i])
        /\ <<"xi-api-key", api_key>> \in requests[i].headers
        /\ api_key # ""
        /\ requests[i].method = "POST" => requests[i].headers = ThreeHeaders
        /\ requests[i].method = "GET" => requests[i].headers = {<<"xi-api-key", api_key>>}

C6_PostIssued == PostReceived /\ requests[1].headers = ThreeHeaders

(* C7: a token that is a catalog key resolves to the catalog's identifier; *)
(* every other token, differently-cased spellings such as ADAM included,   *)
(* is used in the request URL unchanged.                                   *)
CatalogId(k) == (CHOOSE e \in voices : e[1] = k)[2]

C7_RawTokenUnlessKey ==
    \A i \in 1..Len(requests) :
        requests[i].method = "POST" =>
            requests[i].url.voice_id =
                IF args.voice \in VoiceKeys THEN CatalogId(args.voice) ELSE args.voice

\* token t is key k up to the case of its letters
SpellsKey(t, k) ==
    /\ Len(t) = Len(k)
    /\ \A i \in 1..Len(k) : t[i] = k[i] \/ t[i] = UpperChar(k[i])

(* C7, amended: a token that spells a catalog key in any letter case       *)
(* resolves to the catalog's identifier for that key; every other token is *)
(* used in the request URL unchanged.                                      *)
C7_CaseInsensitiveKey ==
    \A i \in 1..Len(requests) :
        requests[i].method = "POST" =>
            requests[i].url.voice_id =
                IF \E k \in VoiceKeys : SpellsKey(args.voice, k)
                THEN CatalogId(CHOOSE k \in VoiceKeys : SpellsKey(args.voice, k))
                ELSE args.voice

C7_UpperCaseAdam ==
    /\ PostReceived
    /\ args.voice = <<"A", "D", "A", "M">>
    /\ requests[1].url.voice_id = CatalogId(<<"a", "d", "a", "m">>)

(* C8: a run makes at most one network call, opens and reads the input     *)
(* file at most once, and writes the output file at most once.             *)
C8_AtMostOneOfEach ==
    Len(requests) <= 1 /\ opens <= 1 /\ writes <= 1

(* C8, amended: a run makes at most one network call and writes the output *)
(* file at most once; it opens the input file at most twice, and twice     *)
(* only when the file is not valid UTF-8 (once as UTF-8, once as latin-1). *)
C8_AtMostTwoOpens ==
    /\ Len(requests) <= 1
    /\ writes <= 1
    /\ opens <= 2
    /\ opens = 2 => (file.state = "ok" /\ ~DecodeUtf8(file.head).ok)
    /\ (file.state = "ok" /\ ~DecodeUtf8(file.head).ok) => opens = 2

C8_FallbackThenSaved ==
    opens = 2 /\ Len(requests) = 1 /\ writes = 1 /\ Exited /\ exit_code = 0

(* C9: a successful test_connection whose response lists N voices prints   *)
(* the count N and exactly the first min(N, 10) voices in response order,  *)
(* each with its name and the first 8 characters of its identifier, and    *)
(* returns True.                                                           *)
ProbeSucceeded ==
    /\ requests # <<>> /\ requests[1].method = "GET"
    /\ response.kind = "response" /\ ~(response.status >= 400 /\ response.status < 600)
    /\ response.json

C9_FirstTenVoices ==
    ProbeSucceeded =>
        LET vs == response.voices
            shown == IF Len(vs) < 10 THEN Len(vs) ELSE 10
        IN  /\ probe.returned = "True"
            /\ probe.count = Len(vs)
            /\ Len(probe.entries) = shown
            /\ \A i \in 1..shown :
                  LET id == vs[i].voice_id
                      n == IF Len(id) < 8 THEN Len(id) ELSE 8
                  IN  /\ probe.entries[i].index = i
                      /\ probe.entries[i].name = vs[i].name
                      /\ Len(probe.entries[i].id_prefix) = n
                      /\ \A k \in 1..n : probe.entries[i].id_prefix[k] = id[k]

C9_TwelveVoices ==
    /\ ProbeSucceeded
    /\ Len(response.voices) = 12
    /\ probe.count = 12 /\ Len(probe.entries) = 10
    /\ \E i \in 1..10 : Len(response.voices[i].voice_id) > 8

(* C10: for a file that exists and can be read, read_text_file returns     *)
(* trimmed content and never reports that no encoding could read it: when  *)
(* the bytes are not valid UTF-8 the latin-1 attempt succeeds, so latin-1  *)
(* is the only fallback reported and cp1252 is never tried.                *)
Trimmed(t) ==
    /\ t.chars # <<>> => ~IsSpace(t.chars[1])
    /\ (t.chars # <<>> /\ t.pad = 0) => ~IsSpace(t.chars[Len(t.chars)])

C10_Latin1AlwaysDecodes ==
    file.state = "ok" =>
        /\ ~text.none
        /\ Trimmed(text)
        /\ ~Printed("unable_to_read_any_encoding")
        /\ ~Printed("file_read_with_cp1252")
        /\ opens <= 2
        /\ Printed("file_read_with_latin-1") <=> ~DecodeUtf8(file.head).ok

C10_UndefinedInCp1252 ==
    /\ file.state = "ok"
    /\ \E i \in 1..Len(file.head) : file.head[i] = 129
    /\ Printed("file_read_with_latin-1")
    /\ ~text.none /\ Len(text.chars) = Len(file.head)

=============================================================================
